---- MODULE Spec2Model ----
(***************************************************************************)
(* Model of forest_stands_stats.py: the module-level pipeline that         *)
(* reconciles the CRS of the forest stands with the elevation raster,      *)
(* approximates a terrain model by grey-scale morphological opening,       *)
(* derives the canopy height model, aggregates both rasters per stand and  *)
(* writes the enriched stands.                                             *)
(*                                                                         *)
(* A raster band is a sequence of rows, each a sequence of samples.  A     *)
(* stand geometry is abstracted to its footprint: the set of raster cells  *)
(* <<row, col>> whose centre the polygon contains (what rasterstats        *)
(* rasterizes with all_touched=False).  A mean is the exact fraction       *)
(* <<sum, count>>, and << >> is Python's None.  A CRS is a string, "None"  *)
(* when the file carries none.  The no-data sentinel of a raster is the    *)
(* set nodata: empty when the file declares none, else one sample value.   *)
(***************************************************************************)
EXTENDS Integers, Sequences, FiniteSets, TLC

VARIABLES
    pc,           \* the statement the script is about to run
    shp,          \* data/vector/forest_stands_2012.shp (read-only input)
    src,          \* data/raster/N61E025_copernicus.tif (read-only input)
    size,         \* side of the square window handed to grey_opening
    emit,         \* order in which the zonal aggregator emits its results
    stands,       \* the GeoDataFrame, held by columns
    raster_crs,   \* src.crs as read at line 14
    dsm,          \* band 1 of src
    meta,         \* src.meta
    dtm_approx,   \* the opened band
    chm,          \* dsm - dtm_approx
    stats,        \* result list of the first zonal_stats call
    stats_chm,    \* result list of the second zonal_stats call
    files,        \* output artifacts written so far: name -> content
    reprojected,  \* TRUE once stands.to_crs(raster_crs) has run
    overlays,     \* number of zonal_stats calls performed
    error         \* the exception that ended the run, "" if none

vars == <<pc, shp, src, size, emit, stands, raster_crs, dsm, meta, dtm_approx,
          chm, stats, stats_chm, files, reprojected, overlays, error>>

-----------------------------------------------------------------------------
(* Bounds and constants *)

MaxCells == 9       \* most cells of a raster of the opening sweep
MaxSize == 3        \* largest window besides the script's own
MaxStands == 2      \* most stands in the vector file
DefaultSize == 15   \* size=(15, 15)

Elevations == {0, 1}
Shapes == {s \in (1..MaxCells) \X (1..MaxCells) : s[1] * s[2] <= MaxCells}
Sentinel == -(2^15)
WindowSizes == (1..MaxSize) \cup {DefaultSize}
DTypes == {"float32", "int16"}
CRSs == {"None", "EPSG:3067", "EPSG:4326"}

DtmFile == "N61E025_dtm_approx.tif"
ChmFile == "N61E025_chm.tif"
OutFile == "forest_stands_with_elev.geojson"

-----------------------------------------------------------------------------
(* scipy.ndimage.grey_opening(input, size=(k, k)), default mode="reflect" *)

SetMin(S) == CHOOSE x \in S : \A y \in S : x <= y
SetMax(S) == CHOOSE x \in S : \A y \in S : x >= y

NumRows(R) == Len(R)
NumCols(R) == Len(R[1])
Cells(R) == (1..NumRows(R)) \X (1..NumCols(R))

\* mode="wrap": (a b c d | a b c d | a b c d)
ExtendWrap(i, n) == ((i - 1) % n) + 1

\* mode="reflect": (d c b a | a b c d | d c b a)
Extend(i, n) ==
    LET j == (i - 1) % (2 * n)
    IN  IF j < n THEN j + 1 ELSE 2 * n - j

\* The k samples a 1-D filter of the given origin reads for output i.
Window(i, k, origin) ==
    (i - (k \div 2) - origin) .. (i + (k - (k \div 2) - 1) - origin)

\* An array built element by element, evaluated once (a materialised tuple).
Array(f) == f \o << >>

minimum_filter1d(line, k, origin) ==
    Array([i \in 1..Len(line) |->
        SetMin({line[Extend(j, Len(line))] : j \in Window(i, k, origin)})])

maximum_filter1d(line, k, origin) ==
    Array([i \in 1..Len(line) |->
        SetMax({line[Extend(j, Len(line))] : j \in Window(i, k, origin)})])

Transpose(R) ==
    Array([c \in 1..NumCols(R) |-> Array([r \in 1..NumRows(R) |-> R[r][c]])])

\* The separable path of _min_or_max_filter: axis 0, then axis 1; an axis
\* whose size is not above 1 is skipped.
MinOrMaxFilter(input, k, origin, minimum) ==
    IF k > 1
    THEN LET cols == Transpose(input)
             ax0  == Transpose([c \in 1..Len(cols) |->
                         IF minimum THEN minimum_filter1d(cols[c], k, origin)
                                    ELSE maximum_filter1d(cols[c], k, origin)])
         IN  Array([r \in 1..Len(ax0) |->
                 IF minimum THEN minimum_filter1d(ax0[r], k, origin)
                            ELSE maximum_filter1d(ax0[r], k, origin)])
    ELSE input

grey_erosion(input, k) == MinOrMaxFilter(input, k, 0, TRUE)

\* grey_dilation mirrors the window: an even size moves the origin by one.
grey_dilation(input, k) ==
    MinOrMaxFilter(input, k, IF k % 2 = 0 THEN -1 ELSE 0, FALSE)

\* dilation first, then erosion: the closing
OpeningReversed(input, k) == grey_erosion(grey_dilation(input, k), k)

grey_opening(input, k) == grey_dilation(grey_erosion(input, k), k)

-----------------------------------------------------------------------------
(* chm = dsm - dtm_approx in the band's own sample type *)

Wrap16(x) == ((x + 2^15) % 2^16) - 2^15

Subtract(a, b, t) == IF t = "int16" THEN Wrap16(a - b) ELSE a - b

CanopyGrid(a, b, t) ==
    Array([r \in 1..NumRows(a) |->
        Array([c \in 1..NumCols(a) |-> Subtract(a[r][c], b[r][c], t)])])

-----------------------------------------------------------------------------
(* rasterstats.zonal_stats(vectors, raster, stats=["mean"]) *)

RECURSIVE SumCells(_, _)
SumCells(band, S) ==
    IF S = {} THEN 0
    ELSE LET x == CHOOSE y \in S : TRUE
         IN  band[x[1]][x[2]] + SumCells(band, S \ {x})

\* The cells of a footprint that count: inside the raster and not no-data.
Covered(geom, raster) ==
    {x \in geom \cap Cells(raster.band) : raster.band[x[1]][x[2]] \notin raster.nodata}

\* the total of the covered cells, not divided by their number
ZonalSum(geom, raster) ==
    LET S == Covered(geom, raster)
    IN  IF S = {} THEN << >> ELSE <<SumCells(raster.band, S), 1>>

ZonalMean(geom, raster) ==
    LET S == Covered(geom, raster)
    IN  IF S = {} THEN << >> ELSE <<SumCells(raster.band, S), Cardinality(S)>>

\* One record per geometry, in the order of the input vectors.
zonal_stats(vectors, raster) ==
    [i \in 1..Len(vectors) |-> [mean |-> ZonalMean(vectors[i], raster)]]

\* The result list as the aggregator emits it.
Emitted(results, order) == [i \in 1..Len(results) |-> results[order[i]]]

\* stands[col] = [feat["mean"] for feat in results]: assignment by position
ColumnOf(results) == [i \in 1..Len(results) |-> results[i].mean]

-----------------------------------------------------------------------------
(* geopandas *)

EmptyFrame ==
    [crs |-> "None", StandID |-> << >>, geometry |-> << >>,
     mean_elev |-> << >>, mean_canopy |-> << >>]

read_file(f) ==
    [crs |-> f.crs, StandID |-> f.StandID, geometry |-> f.geometry,
     mean_elev |-> << >>, mean_canopy |-> << >>]

\* a reprojection that leaves the frame in its old CRS
to_crs_kept(gdf, crs) == gdf

\* Defined only for a frame that has a CRS and a target that is one.
to_crs(gdf, crs) == [gdf EXCEPT !.crs = crs]

CanReproject(gdf, crs) == gdf.crs # "None" /\ crs # "None"

Put(f, name, content) ==
    [n \in DOMAIN f \cup {name} |-> IF n = name THEN content ELSE f[n]]

NoFiles == [n \in {} |-> {}]

RasterFile(m, band) ==
    [crs |-> m.crs, dtype |-> m.dtype, nodata |-> m.nodata, band |-> band]

-----------------------------------------------------------------------------
(* Inputs *)

Bands(shapes, values) ==
    UNION {[1..s[1] -> [1..s[2] -> values]] : s \in shapes}

\* identifiers are unique and differ from the row positions
StandFiles(crs, footprints) ==
    UNION {{[crs |-> crs, StandID |-> [i \in 1..n |-> 100 + i], geometry |-> g] :
                g \in [1..n -> footprints]} : n \in 1..MaxStands}

\* whole extent, one cell, two cells, and a polygon off the raster
Footprints(band) ==
    {Cells(band), {<<1, 1>>}, {<<1, 1>>, <<2, 2>>}, {<<0, 0>>}}

ScenarioBand == <<<<10, 10, 10>>, <<10, 50, 10>>, <<10, 10, 10>>>>

Identity(n) == [i \in 1..n |-> i]

Unset ==
    /\ pc = "load"
    /\ stands = EmptyFrame
    /\ raster_crs = "unset"
    /\ dsm = << >>
    /\ meta = [crs |-> "None", dtype |-> "float32", nodata |-> {}]
    /\ dtm_approx = << >>
    /\ chm = << >>
    /\ stats = << >>
    /\ stats_chm = << >>
    /\ files = NoFiles
    /\ reprojected = FALSE
    /\ overlays = 0
    /\ error = ""

\* every small band of either sample type, with and without a sentinel,
\* under every window; one stand over the whole extent
InitSamples ==
    /\ \E t \in DTypes, nd \in {{}, {Sentinel}} :
         \E b \in Bands({<<1, 2>>, <<2, 2>>}, Elevations \cup nd) :
            /\ src = [crs |-> "EPSG:4326", dtype |-> t, nodata |-> nd, band |-> b]
            /\ shp = [crs |-> "EPSG:3067", StandID |-> <<101>>,
                      geometry |-> <<Cells(b)>>]
    /\ size \in WindowSizes
    /\ emit = Identity(1)
    /\ Unset

\* the scenario raster under every pair of CRSs, every stand file and
\* every emission order
InitStands ==
    /\ \E rc \in CRSs :
         src = [crs |-> rc, dtype |-> "float32", nodata |-> {}, band |-> ScenarioBand]
    /\ \E vc \in CRSs : shp \in StandFiles(vc, Footprints(ScenarioBand))
    /\ size \in {3, DefaultSize}
    /\ emit \in Permutations(1..Len(shp.geometry))
    /\ Unset

Init == InitSamples \/ InitStands

-----------------------------------------------------------------------------
(* The script, statement by statement *)

Fail(e) ==
    /\ pc' = "failed"
    /\ error' = e

\* line 10
Load ==
    /\ pc = "load"
    /\ stands' = read_file(shp)
    /\ pc' = "reconcile"
    /\ UNCHANGED <<shp, src, size, emit, raster_crs, dsm, meta, dtm_approx, chm,
                   stats, stats_chm, files, reprojected, overlays, error>>

\* lines 13-18
Reconcile ==
    /\ pc = "reconcile"
    /\ raster_crs' = src.crs
    /\ IF stands.crs # src.crs
       THEN IF CanReproject(stands, src.crs)
            THEN /\ stands' = to_crs(stands, src.crs)
                 /\ reprojected' = TRUE
                 /\ pc' = "read"
                 /\ UNCHANGED error
            ELSE /\ Fail("ValueError")
                 /\ UNCHANGED <<stands, reprojected>>
       ELSE /\ pc' = "read"
            /\ UNCHANGED <<stands, reprojected, error>>
    /\ UNCHANGED <<shp, src, size, emit, dsm, meta, dtm_approx, chm, stats,
                   stats_chm, files, overlays>>

\* lines 25-27
ReadDsm ==
    /\ pc = "read"
    /\ dsm' = src.band
    /\ meta' = [crs |-> src.crs, dtype |-> src.dtype, nodata |-> src.nodata]
    /\ pc' = "terrain"
    /\ UNCHANGED <<shp, src, size, emit, stands, raster_crs, dtm_approx, chm,
                   stats, stats_chm, files, reprojected, overlays, error>>

\* lines 32-34
Terrain ==
    /\ pc = "terrain"
    /\ dtm_approx' = grey_opening(dsm, size)
    /\ files' = Put(files, DtmFile, RasterFile(meta, dtm_approx'))
    /\ pc' = "canopy"
    /\ UNCHANGED <<shp, src, size, emit, stands, raster_crs, dsm, meta, chm,
                   stats, stats_chm, reprojected, overlays, error>>

\* lines 37-39; the subtraction is done in the band's sample type, and the
\* float32 copy handed to dst.write holds the same values
Canopy ==
    /\ pc = "canopy"
    /\ chm' = CanopyGrid(dsm, dtm_approx, meta.dtype)
    /\ files' = Put(files, ChmFile, RasterFile(meta, chm'))
    /\ pc' = "zonal_elev"
    /\ UNCHANGED <<shp, src, size, emit, stands, raster_crs, dsm, meta,
                   dtm_approx, stats, stats_chm, reprojected, overlays, error>>

\* lines 41-46
ZonalElev ==
    /\ pc = "zonal_elev"
    /\ stats' = Emitted(zonal_stats(stands.geometry, src), emit)
    /\ overlays' = overlays + 1
    /\ pc' = "join_elev"
    /\ UNCHANGED <<shp, src, size, emit, stands, raster_crs, dsm, meta,
                   dtm_approx, chm, stats_chm, files, reprojected, error>>

\* line 48
JoinElev ==
    /\ pc = "join_elev"
    /\ stands' = [stands EXCEPT !.mean_elev = ColumnOf(stats)]
    /\ pc' = "zonal_canopy"
    /\ UNCHANGED <<shp, src, size, emit, raster_crs, dsm, meta, dtm_approx, chm,
                   stats, stats_chm, files, reprojected, overlays, error>>

\* lines 51-56
ZonalCanopy ==
    /\ pc = "zonal_canopy"
    /\ stats_chm' = Emitted(zonal_stats(stands.geometry, files[ChmFile]), emit)
    /\ overlays' = overlays + 1
    /\ pc' = "join_canopy"
    /\ UNCHANGED <<shp, src, size, emit, stands, raster_crs, dsm, meta,
                   dtm_approx, chm, stats, files, reprojected, error>>

\* line 57
JoinCanopy ==
    /\ pc = "join_canopy"
    /\ stands' = [stands EXCEPT !.mean_canopy = ColumnOf(stats_chm)]
    /\ pc' = "output"
    /\ UNCHANGED <<shp, src, size, emit, raster_crs, dsm, meta, dtm_approx, chm,
                   stats, stats_chm, files, reprojected, overlays, error>>

\* lines 59-63
Output ==
    /\ pc = "output"
    /\ IF CanReproject(stands, "EPSG:4326")
       THEN /\ files' = Put(files, OutFile, to_crs(stands, "EPSG:4326"))
            /\ pc' = "done"
            /\ UNCHANGED error
       ELSE /\ Fail("ValueError")
            /\ UNCHANGED files
    /\ UNCHANGED <<shp, src, size, emit, stands, raster_crs, dsm, meta,
                   dtm_approx, chm, stats, stats_chm, reprojected, overlays>>

Next ==
    \/ Load
    \/ Reconcile
    \/ ReadDsm
    \/ Terrain
    \/ Canopy
    \/ ZonalElev
    \/ JoinElev
    \/ ZonalCanopy
    \/ JoinCanopy
    \/ Output

Spec == Init /\ [][Next]_vars

-----------------------------------------------------------------------------
(* grey_opening and the subtraction alone, on every band of the sweep *)

InitOpening ==
    /\ \E b \in Bands(Shapes, Elevations) :
         /\ src = [crs |-> "EPSG:4326", dtype |-> "float32", nodata |-> {},
                   band |-> b]
         /\ shp = [crs |-> "EPSG:4326", StandID |-> <<101>>,
                   geometry |-> <<Cells(b)>>]
    /\ size \in WindowSizes
    /\ emit = Identity(1)
    /\ pc = "terrain"
    /\ stands = read_file(shp)
    /\ raster_crs = src.crs
    /\ dsm = src.band
    /\ meta = [crs |-> src.crs, dtype |-> src.dtype, nodata |-> src.nodata]
    /\ dtm_approx = << >>
    /\ chm = << >>
    /\ stats = << >>
    /\ stats_chm = << >>
    /\ files = NoFiles
    /\ reprojected = FALSE
    /\ overlays = 0
    /\ error = ""

NextOpening ==
    \/ Terrain
    \/ Canopy

SpecOpening == InitOpening /\ [][NextOpening]_vars

-----------------------------------------------------------------------------
(* Properties *)

At(R, x) == R[x[1]][x[2]]

ValidWindow(k, band) == k >= 1 /\ k <= NumRows(band) /\ k <= NumCols(band)

\* the fraction m equals num/den
MeanIs(m, num, den) == Len(m) = 2 /\ m[1] * den = num * m[2]

Joined == pc \in {"output", "done"}

C2_NoPartialOutput == pc = "failed" => DOMAIN files = {}

\* C3: at each of the two zonal_stats calls the stands are in the CRS of the
\* raster they are overlaid on; the stands are reprojected to the raster's
\* CRS exactly when their CRS differs from it, and the raster never changes.
C3_CrsAligned ==
    /\ pc = "zonal_elev" => stands.crs = src.crs
    /\ pc = "zonal_canopy" => stands.crs = files[ChmFile].crs
    /\ pc \notin {"load", "reconcile", "failed"} =>
          /\ reprojected <=> shp.crs # src.crs
          /\ stands.crs = src.crs
          /\ raster_crs = src.crs

C3_Witness == pc = "zonal_canopy" /\ reprojected /\ shp.crs # src.crs

\* C4: when the stands or the raster carry no CRS the run fails before any
\* zonal aggregation, so none is ever performed and the run never completes.
C4_MissingCrsAborts ==
    (shp.crs = "None" \/ src.crs = "None") => overlays = 0 /\ pc # "done"

\* C5: a window that is non-positive or larger than the raster is rejected
\* before anything is computed or written.
C5_InvalidWindowRejected ==
    ~ValidWindow(size, src.band) =>
        /\ dtm_approx = << >>
        /\ DtmFile \notin DOMAIN files

\* C6: under a valid window the opened band has the shape of the raw band
\* and is at most the raw band at every cell.
C6_AntiExtensive ==
    (dtm_approx # << >> /\ ValidWindow(size, dsm)) =>
        /\ NumRows(dtm_approx) = NumRows(dsm)
        /\ \A r \in 1..NumRows(dsm) : Len(dtm_approx[r]) = Len(dsm[r])
        /\ \A x \in Cells(dsm) : At(dtm_approx, x) <= At(dsm, x)

\* a valid window above 1 that lowered a cell on the raster's edge
C6_Witness ==
    /\ dtm_approx # << >>
    /\ ValidWindow(size, dsm)
    /\ size > 1
    /\ At(dtm_approx, <<1, 1>>) < At(dsm, <<1, 1>>)

\* C7: the canopy value is at least 0 at every cell that is valid in the raw
\* band, for either sample type, also with a sentinel elsewhere in the band.
C7_CanopyNonNegative ==
    chm # << >> =>
        \A x \in Cells(dsm) : At(dsm, x) \notin meta.nodata => At(chm, x) >= 0

\* C8: a no-data cell of the raw band is no-data in the opened band and in
\* the canopy band, and takes part in no window: the opened band is valid
\* wherever the raw band is.
C8_NoDataPropagates ==
    chm # << >> =>
        \A x \in Cells(dsm) :
            IF At(dsm, x) \in meta.nodata
            THEN At(dtm_approx, x) \in meta.nodata /\ At(chm, x) \in meta.nodata
            ELSE At(dtm_approx, x) \notin meta.nodata

Scenario ==
    /\ pc = "done"
    /\ src.band = ScenarioBand
    /\ size = 3
    /\ shp.geometry = <<Cells(ScenarioBand)>>

ScenarioGrids ==
    /\ dtm_approx = <<<<10, 10, 10>>, <<10, 10, 10>>, <<10, 10, 10>>>>
    /\ chm = <<<<0, 0, 0>>, <<0, 40, 0>>, <<0, 0, 0>>>>
    /\ MeanIs(stands.mean_canopy[1], 40, 9)

\* C9 as stated: the scenario yields mean_elev = 20.0, terrain uniformly
\* 10, the canopy grid with 40 at the centre, and mean_canopy = 40/9.
C9_ScenarioAsStated ==
    Scenario => MeanIs(stands.mean_elev[1], 20, 1) /\ ScenarioGrids

\* C9 amended: the scenario yields mean_elev = 130/9 (about 14.44), terrain
\* uniformly 10, the canopy grid with 40 at the centre, and mean_canopy = 40/9.
C9_ScenarioAmended ==
    Scenario => MeanIs(stands.mean_elev[1], 130, 9) /\ ScenarioGrids

C9_Witness == Scenario /\ Len(stands.mean_elev) = 1

Clamp(i, n) == IF i < 1 THEN 1 ELSE IF i > n THEN n ELSE i

Offsets(k) == (-(k \div 2)) .. (k - (k \div 2) - 1)

\* minimum over the k x k window at <<r, c>>, edge values repeated
WindowMin(R, k, r, c) ==
    SetMin({R[Clamp(r + dr, NumRows(R))][Clamp(c + dc, NumCols(R))] :
                dr \in Offsets(k), dc \in Offsets(k)})

\* maximum over the mirrored k x k window at <<r, c>>, edge values repeated
WindowMax(R, k, r, c) ==
    SetMax({R[Clamp(r - dr, NumRows(R))][Clamp(c - dc, NumCols(R))] :
                dr \in Offsets(k), dc \in Offsets(k)})

Eroded(R, k) ==
    Array([r \in 1..NumRows(R) |->
        Array([c \in 1..NumCols(R) |-> WindowMin(R, k, r, c)])])

\* C10: under a valid window every cell of the opened band is the window
\* maximum of the grid of window minima, windows past the edge being filled
\* by repeating the nearest edge value.
C10_ErosionThenDilation ==
    (dtm_approx # << >> /\ ValidWindow(size, dsm)) =>
        LET E == Eroded(dsm, size)
        IN  \A x \in Cells(dsm) :
                At(dtm_approx, x) = WindowMax(E, size, x[1], x[2])

\* a valid window above 1 on a band that is not flat, with a cell the
\* opening changed
C10_Witness ==
    /\ dtm_approx # << >>
    /\ ValidWindow(size, dsm)
    /\ size > 1
    /\ \E x \in Cells(dsm) : At(dtm_approx, x) # At(dsm, x)
    /\ \E x \in Cells(dsm) : At(dtm_approx, x) = 1

====
